---- MODULE Spec2Model ----
(***************************************************************************)
(* Float64Type of terraform-plugin-framework (types/basetypes):            *)
(* Equal, TerraformType, Validate and ValueFromTerraform, over wire values *)
(* (tftypes.Value) whose Number payload is a *big.Float.                   *)
(*                                                                         *)
(* A bit string is a sequence over {0, 1}, most significant bit first.     *)
(* A *big.Float is [form, neg, mant, exp]: for form "finite" its value is  *)
(* (-1)^neg * 0.mant * 2^exp with mant[1] = 1 (math/big's normal form).    *)
(* A float64 is its IEEE-754 fields [sign, bexp, frac], frac of 52 bits.   *)
(***************************************************************************)
EXTENDS Integers, Sequences, FiniteSets, TLC

VARIABLES calls

vars == <<calls>>

-----------------------------------------------------------------------------
(* Bounds of the model. *)

\* Mantissas of the Number inputs are up to 53 + MaxExtraBits bits long.
MaxExtraBits == 2

\* Number of calls in flight at once in the concurrent specification.
MaxConcurrent == 2

-----------------------------------------------------------------------------
(* math/big and IEEE-754 constants used by big.Float.Float64.           *)

fbits == 64
mbits == 52
ebits == fbits - mbits - 1
bias == 2^(ebits - 1) - 1
emin == 1 - bias
emax == bias

Exact == "Exact"
Below == "Below"
Above == "Above"

Zeros(n) == [i \in 1..n |-> 0]
Ones(n) == [i \in 1..n |-> 1]

\* Some bit of m at a position in lo..hi is set.
Sticky(m, lo, hi) == \E i \in lo..hi : i <= Len(m) /\ m[i] = 1

\* m with its trailing zero bits removed.
StripTrailing(m) ==
    LET last == CHOOSE k \in 0..Len(m) :
                    /\ k > 0 => m[k] = 1
                    /\ \A i \in (k+1)..Len(m) : m[i] = 0
    IN  SubSeq(m, 1, last)

\* m with its leading zero bits removed.
StripLeading(m) ==
    LET first == CHOOSE k \in 1..(Len(m) + 1) :
                     /\ k <= Len(m) => m[k] = 1
                     /\ \A i \in 1..(k-1) : m[i] = 0
    IN  SubSeq(m, first, Len(m))

\* m + 1 on a bit string that is not all ones.
Inc(m) ==
    LET k == CHOOSE j \in 1..Len(m) :
                 m[j] = 0 /\ \A i \in (j+1)..Len(m) : m[i] = 1
    IN  [i \in 1..Len(m) |-> IF i < k THEN m[i] ELSE IF i = k THEN 1 ELSE 0]

\* The first n bits of m, zero-extended on the right.
TopBits(m, n) == [i \in 1..n |-> IF i <= Len(m) THEN m[i] ELSE 0]

\* big.Float.round to p >= 1 bits, mode ToNearestEven: the rounded
\* mantissa, whether the exponent grew by one, and whether the magnitude
\* stayed ("same"), grew ("up") or shrank ("down").
Round(m, p) ==
    IF ~Sticky(m, p + 1, Len(m))
    THEN [mant |-> TopBits(m, p), carry |-> 0, dir |-> "same"]
    ELSE LET kept == SubSeq(m, 1, p)
             rbit == m[p + 1]
             sticky == Sticky(m, p + 2, Len(m))
             up == rbit = 1 /\ (sticky \/ kept[p] = 1)
         IN  IF ~up
             THEN [mant |-> kept, carry |-> 0, dir |-> "down"]
             ELSE IF kept = Ones(p)
                  THEN [mant |-> <<1>> \o Zeros(p - 1), carry |-> 1, dir |-> "up"]
                  ELSE [mant |-> Inc(kept), carry |-> 0, dir |-> "up"]

\* makeAcc: the accuracy of a rounded result relative to the exact value.
MakeAcc(neg, dir) ==
    CASE dir = "same" -> Exact
      [] dir = "up"   -> IF neg THEN Below ELSE Above
      [] dir = "down" -> IF neg THEN Above ELSE Below

F64(neg, bexp, frac) == [sign |-> IF neg THEN 1 ELSE 0, bexp |-> bexp, frac |-> frac]
F64Zero(neg) == F64(neg, 0, Zeros(mbits))
F64Inf(neg) == F64(neg, 2^ebits - 1, Zeros(mbits))
SmallestNonzeroFloat64(neg) == F64(neg, 0, Zeros(mbits - 1) \o <<1>>)

\* big.Float.Float64: the nearest float64 and the accuracy of the result.
Float64(x) ==
    CASE x.form = "zero" -> [f |-> F64Zero(x.neg), acc |-> Exact]
      [] x.form = "inf"  -> [f |-> F64Inf(x.neg), acc |-> Exact]
      [] OTHER ->
         LET e == x.exp - 1
             p == IF e < emin THEN mbits + 1 - emin + e ELSE mbits + 1
         IN  IF e < emin /\ (p < 0 \/ (p = 0 /\ ~Sticky(x.mant, 2, Len(x.mant))))
             THEN [f |-> F64Zero(x.neg), acc |-> IF x.neg THEN Above ELSE Below]
             ELSE IF e < emin /\ p = 0
             THEN [f |-> SmallestNonzeroFloat64(x.neg),
                   acc |-> IF x.neg THEN Below ELSE Above]
             ELSE LET r == Round(x.mant, p)
                      re == x.exp + r.carry - 1
                  IN  IF re > emax
                      THEN [f |-> F64Inf(x.neg), acc |-> IF x.neg THEN Below ELSE Above]
                      ELSE IF re < emin
                      THEN LET p2 == mbits + 1 - emin + re
                           IN  [f |-> F64(x.neg, 0, Zeros(mbits - p2) \o TopBits(r.mant, p2)),
                                acc |-> MakeAcc(x.neg, r.dir)]
                      ELSE [f |-> F64(x.neg, re + bias,
                                      SubSeq(TopBits(r.mant, mbits + 1), 2, mbits + 1)),
                            acc |-> MakeAcc(x.neg, r.dir)]

Finite(neg, mant, exp) == [form |-> "finite", neg |-> neg, mant |-> mant, exp |-> exp]
BigZero(neg) == [form |-> "zero", neg |-> neg, mant |-> <<>>, exp |-> 0]
BigInf(neg) == [form |-> "inf", neg |-> neg, mant |-> <<>>, exp |-> 0]

IsNaN(f) == f.bexp = 2^ebits - 1 /\ f.frac # Zeros(mbits)

\* big.NewFloat(f) for a float64 f that is not NaN: the same number, exactly.
NewFloat(f) ==
    IF f.bexp = 2^ebits - 1 THEN BigInf(f.sign = 1)
    ELSE IF f.bexp = 0
    THEN IF f.frac = Zeros(mbits) THEN BigZero(f.sign = 1)
         ELSE LET m == StripLeading(f.frac)
              IN  Finite(f.sign = 1, m, emin - (mbits - Len(m)))
    ELSE Finite(f.sign = 1, <<1>> \o f.frac, f.bexp - bias + 1)

\* The number a *big.Float denotes, in a form unique per number (the sign
\* of zero is kept: Go's == on float64 is FloatEq below).
Canon(x) ==
    IF x.form = "finite" THEN Finite(x.neg, StripTrailing(x.mant), x.exp) ELSE x

\* Numeric equality of two *big.Float (Cmp = 0): -0 equals +0.
NumEq(x, y) ==
    \/ x.form = "zero" /\ y.form = "zero"
    \/ Canon(x) = Canon(y)

\* Go's == on two float64: NaN equals nothing, -0 equals +0.
FloatEq(f, g) == ~IsNaN(f) /\ ~IsNaN(g) /\ NumEq(NewFloat(f), NewFloat(g))

-----------------------------------------------------------------------------
(* big.Float.Text: math/big's exact binary-to-decimal conversion.  A       *)
(* decimal is [mant, exp]: digits without trailing zeros, most significant *)
(* first, denoting 0.mant * 10^exp.  Text is a sequence of characters.     *)

\* 2 * d + b for the digit string d and the bit b.
Double(d, b) ==
    LET n == Len(d)
        body == [i \in 1..n |->
                    (2 * d[i] + (IF i < n THEN (IF d[i + 1] >= 5 THEN 1 ELSE 0) ELSE b)) % 10]
    IN  IF n = 0 THEN (IF b = 1 THEN <<1>> ELSE <<>>)
        ELSE IF d[1] >= 5 THEN <<1>> \o body ELSE body

\* 5 * d for the digit string d: half of 10 * d.
Times5(d) ==
    LET e == d \o <<0>>
        h == [i \in 1..Len(e) |-> (e[i] + (IF i > 1 THEN 10 * (e[i - 1] % 2) ELSE 0)) \div 2]
    IN  IF h[1] = 0 THEN Tail(h) ELSE h

\* The digits of 2^(hi-lo+1) * d + (bits lo..hi of m, zero past its end).
RECURSIVE ShiftIn(_, _, _, _)
ShiftIn(m, lo, hi, d) ==
    IF lo > hi THEN d
    ELSE IF lo = hi THEN Double(d, IF lo <= Len(m) THEN m[lo] ELSE 0)
    ELSE LET mid == (lo + hi) \div 2
             r == ShiftIn(m, lo, mid, d)
         IN  IF Len(r) >= 0 THEN ShiftIn(m, mid + 1, hi, r) ELSE r

\* The digits of 5^k * d.
RECURSIVE Pow5(_, _)
Pow5(d, k) ==
    IF k = 0 THEN d
    ELSE IF k = 1 THEN Times5(d)
    ELSE LET r == Pow5(d, k \div 2)
         IN  IF Len(r) >= 0 THEN Pow5(r, k - (k \div 2)) ELSE r

\* d without its trailing zero digits (decimal trim).
Trim(d) ==
    LET last == CHOOSE k \in 0..Len(d) :
                    /\ k > 0 => d[k] # 0
                    /\ \A i \in (k+1)..Len(d) : d[i] = 0
    IN  SubSeq(d, 1, last)

\* decimal.init: the exact decimal value of a finite x.
Decimal(x) ==
    LET m == StripTrailing(x.mant)
        k == x.exp - Len(m)
    IN  IF k >= 0
        THEN LET d == ShiftIn(m, 1, x.exp, <<>>) IN [mant |-> Trim(d), exp |-> Len(d)]
        ELSE LET d == Pow5(ShiftIn(m, 1, Len(m), <<>>), -k)
             IN  [mant |-> Trim(d), exp |-> Len(d) + k]

\* decimal.round: d rounded half-to-even to n digits.
RoundDecimal(d, n) ==
    IF n < 0 \/ n >= Len(d.mant) THEN d
    ELSE LET up == IF d.mant[n + 1] = 5 /\ n + 1 = Len(d.mant)
                   THEN n > 0 /\ d.mant[n] % 2 = 1
                   ELSE d.mant[n + 1] >= 5
         IN  IF ~up THEN [mant |-> Trim(SubSeq(d.mant, 1, n)), exp |-> d.exp]
             ELSE IF \A i \in 1..n : d.mant[i] = 9
             THEN [mant |-> <<1>>, exp |-> d.exp + 1]
             ELSE LET j == CHOOSE j \in 1..n :
                               d.mant[j] < 9 /\ \A i \in (j+1)..n : d.mant[i] = 9
                  IN  [mant |-> [i \in 1..j |-> IF i = j THEN d.mant[i] + 1 ELSE d.mant[i]],
                       exp |-> d.exp]

DigitChar(d) == <<"0", "1", "2", "3", "4", "5", "6", "7", "8", "9">>[d + 1]
DigitChars(ds) == [i \in 1..Len(ds) |-> DigitChar(ds[i])]

\* strconv.Itoa of n >= 0.
RECURSIVE Itoa(_)
Itoa(n) == IF n < 10 THEN <<DigitChar(n)>> ELSE Itoa(n \div 10) \o <<DigitChar(n % 10)>>

\* fmtE: d.ddddde+dd with prec digits after the point.
FmtE(prec, d) ==
    LET digit(i) == IF i <= Len(d.mant) THEN d.mant[i] ELSE 0
        e == IF Len(d.mant) > 0 THEN d.exp - 1 ELSE 0
        a == IF e < 0 THEN -e ELSE e
    IN  <<DigitChar(digit(1))>>
            \o (IF prec > 0 THEN <<".">> \o [i \in 1..prec |-> DigitChar(digit(i + 1))]
                ELSE <<>>)
            \o <<"e", IF e < 0 THEN "-" ELSE "+">>
            \o (IF a < 10 THEN <<"0">> ELSE <<>>) \o Itoa(a)

\* fmtF: ddddd.ddddd with prec digits after the point.
FmtF(prec, d) ==
    LET digit(i) == IF 1 <= i /\ i <= Len(d.mant) THEN d.mant[i] ELSE 0
    IN  (IF d.exp > 0 THEN [i \in 1..d.exp |-> DigitChar(digit(i))] ELSE <<"0">>)
            \o (IF prec > 0
                THEN <<".">> \o [i \in 1..prec |-> DigitChar(digit(d.exp + i))]
                ELSE <<>>)

\* x.Text('g', prec) for prec >= 0.
TextG(x, prec) ==
    (IF x.neg THEN <<"-">> ELSE <<>>) \o
    CASE x.form = "inf" -> IF x.neg THEN <<"I", "n", "f">> ELSE <<"+", "I", "n", "f">>
      [] x.form = "zero" -> <<"0">>
      [] OTHER ->
         LET d == RoundDecimal(Decimal(x), IF prec = 0 THEN 1 ELSE prec)
             n == Len(d.mant)
             eprec == IF prec > n /\ n >= d.exp THEN n ELSE prec
             e == d.exp - 1
         IN  IF e < -4 \/ e >= eprec
             THEN FmtE((IF prec > n THEN n ELSE prec) - 1, d)
             ELSE LET p == IF prec > d.exp THEN n ELSE prec
                  IN  FmtF(IF p - d.exp > 0 THEN p - d.exp ELSE 0, d)

\* x.String(): x.Text('g', 10).
StringPrec == 10
String(x) == TextG(x, StringPrec)

\* The text fmt writes for a big.Float pointer operand under the verb %s:
\* big.Float.Format knows the verbs e, E, f, F, b, p, x, g, G and v, and for
\* s writes the bad-verb marker, the operand's Go type and x.String().
FormatS(x) ==
    <<"%", "!", "s", "(", "*", "b", "i", "g", ".", "F", "l", "o", "a", "t", "=">>
        \o String(x) \o <<")">>

-----------------------------------------------------------------------------
(* tftypes.Value: a wire type (typ, "nil" for none) and a Go value (value), *)
(* which is nil for null, the unknown sentinel, or the payload.            *)

Nil == [gotype |-> "nil"]
unknownValue == [gotype |-> "unknownType"]
BigFloatPayload(x) == [gotype |-> "*big.Float", f |-> x]
StringPayload(s) == [gotype |-> "string", s |-> s]
BoolPayload(b) == [gotype |-> "bool", b |-> b]

NewValue(typ, value) == [typ |-> typ, value |-> value]

Number == "Number"

IsKnown(in) == in.value # unknownValue
IsNull(in) == in.value = Nil

Error(msg) == [gotype |-> "error", msg |-> msg]

\* in.As(&target) for a target of type **big.Float: the pointer it leaves in
\* target ("ptr" FALSE: nil) and the error.
As(in) ==
    IF IsNull(in) THEN [ptr |-> FALSE, f |-> BigZero(FALSE), err |-> Nil]
    ELSE IF ~IsKnown(in)
    THEN [ptr |-> TRUE, f |-> BigZero(FALSE),
          err |-> Error("unmarshaling unknown values is not supported")]
    ELSE IF in.value.gotype = "*big.Float"
    THEN [ptr |-> TRUE, f |-> in.value.f, err |-> Nil]
    ELSE [ptr |-> TRUE, f |-> BigZero(FALSE),
          err |-> Error("can't unmarshal " \o in.typ \o " into *big.Float, expected *big.Float")]

-----------------------------------------------------------------------------
(* diag.Diagnostics and Float64Value.                                      *)

\* path.Empty()
EmptyPath == <<>>

ErrorDiagnostic(path, summary, detail) ==
    [severity |-> "Error", summary |-> summary, detail |-> detail, path |-> path]

Contains(diags, d) == \E i \in 1..Len(diags) : diags[i] = d

\* diags.AddAttributeError(path, summary, detail)
AddAttributeError(diags, path, summary, detail) ==
    LET d == ErrorDiagnostic(path, summary, detail)
    IN  IF Contains(diags, d) THEN diags ELSE Append(diags, d)

Float64Value(state, f) == [gotype |-> "Float64Value", state |-> state, value |-> f]
NewFloat64Null == Float64Value("null", F64Zero(FALSE))
NewFloat64Unknown == Float64Value("unknown", F64Zero(FALSE))
NewFloat64Value(f) == Float64Value("known", f)

\* Float64Value.Equal
ValueEqual(v, w) ==
    /\ v.gotype = "Float64Value" /\ w.gotype = "Float64Value"
    /\ v.state = w.state
    /\ v.state = "known" => FloatEq(v.value, w.value)

\* Float64Value.ToTerraformValue for a known value: NewValue panics on NaN.
ToTerraformValue(v) ==
    IF IsNaN(v.value) THEN [encoded |-> FALSE, value |-> NewValue(Number, unknownValue)]
    ELSE [encoded |-> TRUE, value |-> NewValue(Number, BigFloatPayload(NewFloat(v.value)))]

-----------------------------------------------------------------------------
(* Float64Type.                                                            *)

ValidationSummary == "Float64 Type Validation Error"
ProviderErrorDetail ==
    "An unexpected error was encountered trying to validate an attribute value. This is always an error in the provider. Please report the following to the provider developer:\n\n"
NarrowingPrefix == "Value "
NarrowingSuffix == " cannot be represented as a 64-bit floating point."
NarrowingDetail == NarrowingPrefix \o "%s" \o NarrowingSuffix
TypeDetail == ProviderErrorDetail \o "Expected Number value, received %T with value: %v"
ConvertDetail == ProviderErrorDetail \o "Cannot convert value to big.Float: %s"

\* fmt.Sprintf(format, operand): a message is kept as its format and its
\* operand; MessageText is the text it reads.
Sprintf(format, operand) == [format |-> format, operand |-> operand]

\* The text of a narrowing message: the format's text around the operand as
\* fmt writes it for %s.
MessageText(msg) == <<NarrowingPrefix, FormatS(msg.operand), NarrowingSuffix>>

\* Equal with the bug of comparing wire types: every type whose wire type is
\* Number passes.
EqualByWireType(o) == o \in {"Float64Type", "Int64Type", "NumberType"}

\* o.(Float64Type): the dynamic type of o is exactly Float64Type.
Equal(o) == o = "Float64Type"

TerraformType == Number

\* Validate with one bug: "overflow" reports a narrowing failure only when the
\* float64 is an infinity, "nopath" drops the path of the wire-type diagnostic,
\* "emptyFirst" returns early for a null or unknown value before looking at
\* its wire type, "noNilCheck" drops the early return for a value of no type.
BuggyValidateFrom(diags, in, path, bug) ==
    IF in.typ = "nil" /\ bug # "noNilCheck" THEN diags
    ELSE IF bug = "emptyFirst" /\ (~IsKnown(in) \/ IsNull(in)) THEN diags
    ELSE IF in.typ # Number
    THEN AddAttributeError(diags, IF bug = "nopath" THEN EmptyPath ELSE path,
             ValidationSummary,
             Sprintf(TypeDetail, in))
    ELSE IF ~IsKnown(in) \/ IsNull(in) THEN diags
    ELSE LET a == As(in)
             r == Float64(a.f)
         IN  IF a.err # Nil
             THEN AddAttributeError(diags, path, ValidationSummary,
                      Sprintf(ConvertDetail, a.err))
             ELSE IF (IF bug = "overflow" THEN r.f.bexp = 2^ebits - 1 /\ r.acc # Exact
                      ELSE r.acc # Exact)
             THEN AddAttributeError(diags, path, ValidationSummary,
                      Sprintf(NarrowingDetail, a.f))
             ELSE diags

ValidateFromOverflowOnly(diags, in, path) == BuggyValidateFrom(diags, in, path, "overflow")
ValidateFromNoPath(diags, in, path) == BuggyValidateFrom(diags, in, path, "nopath")
ValidateFromEmptyFirst(diags, in, path) == BuggyValidateFrom(diags, in, path, "emptyFirst")
ValidateFromNoNilCheck(diags, in, path) == BuggyValidateFrom(diags, in, path, "noNilCheck")

\* Lines 58-101 of Validate over the collector diags.
ValidateFrom(diags, in, path) ==
    IF in.typ = "nil" THEN diags
    ELSE IF in.typ # Number
    THEN AddAttributeError(diags, path, ValidationSummary,
             Sprintf(TypeDetail, in))
    ELSE IF ~IsKnown(in) \/ IsNull(in) THEN diags
    ELSE LET a == As(in)
         IN  IF a.err # Nil
             THEN AddAttributeError(diags, path, ValidationSummary,
                      Sprintf(ConvertDetail, a.err))
             ELSE IF Float64(a.f).acc # Exact
             THEN AddAttributeError(diags, path, ValidationSummary,
                      Sprintf(NarrowingDetail, a.f))
             ELSE diags

\* var diags diag.Diagnostics: the collector a Validate call starts from,
\* whatever the collectors of the other calls in flight hold.
SharedDiagnostics(others) ==
    IF \E d \in others : d # <<>> THEN CHOOSE d \in others : d # <<>> ELSE <<>>

NewDiagnostics(others) == <<>>

Validate(in, path) == ValidateFrom(NewDiagnostics({}), in, path)

\* ValueFromTerraform with one bug: "unknownAsNull" decodes an unknown value
\* to Null, "ignoreAsErr" drops the error of As, "rounding" accepts a rounded
\* float64 unless it overflowed, "rejectInf" refuses an infinite float64.
BuggyValueFromTerraform(in, bug) ==
    IF ~IsKnown(in)
    THEN [value |-> IF bug = "unknownAsNull" THEN NewFloat64Null ELSE NewFloat64Unknown,
          err |-> Nil]
    ELSE IF IsNull(in) THEN [value |-> NewFloat64Null, err |-> Nil]
    ELSE LET a == As(in)
             r == Float64(a.f)
             inf == r.f.bexp = 2^ebits - 1
         IN  IF a.err # Nil /\ bug # "ignoreAsErr" THEN [value |-> Nil, err |-> a.err]
             ELSE IF \/ bug = "rounding" /\ inf /\ r.acc # Exact
                     \/ bug = "rejectInf" /\ (inf \/ r.acc # Exact)
                     \/ bug \notin {"rounding", "rejectInf"} /\ r.acc # Exact
                  THEN [value |-> Nil, err |-> Error(Sprintf(NarrowingDetail, a.f))]
                  ELSE [value |-> NewFloat64Value(r.f), err |-> Nil]

ValueFromTerraformUnknownAsNull(in) == BuggyValueFromTerraform(in, "unknownAsNull")
ValueFromTerraformIgnoreAsErr(in) == BuggyValueFromTerraform(in, "ignoreAsErr")
ValueFromTerraformRounding(in) == BuggyValueFromTerraform(in, "rounding")
ValueFromTerraformRejectInf(in) == BuggyValueFromTerraform(in, "rejectInf")

ValueFromTerraform(in) ==
    IF ~IsKnown(in) THEN [value |-> NewFloat64Unknown, err |-> Nil]
    ELSE IF IsNull(in) THEN [value |-> NewFloat64Null, err |-> Nil]
    ELSE LET a == As(in)
         IN  IF a.err # Nil THEN [value |-> Nil, err |-> a.err]
             ELSE LET r == Float64(a.f)
                  IN  IF r.acc # Exact
                      THEN [value |-> Nil, err |-> Error(Sprintf(NarrowingDetail, a.f))]
                      ELSE [value |-> NewFloat64Value(r.f), err |-> Nil]

-----------------------------------------------------------------------------
(* Custom types built by embedding (struct { Float64Type }): a method the  *)
(* custom type does not declare is promoted from the embedded Float64Type. *)

Float64TypeMethods == {"Equal", "TerraformType", "Validate", "ValueFromTerraform"}

\* "PlainCustomType" embeds Float64Type and declares nothing;
\* "CustomType" follows the documented pattern and declares ValueFromTerraform.
Embedded(t) == IF t \in {"PlainCustomType", "CustomType"} THEN "Float64Type" ELSE "nil"

OverridingDeclares(t) ==
    CASE t = "Float64Type" -> Float64TypeMethods
      [] t \in {"CustomType", "PlainCustomType"} -> {"ValueFromTerraform"}
      [] OTHER -> {}

Declares(t) ==
    CASE t = "Float64Type" -> Float64TypeMethods
      [] t = "CustomType" -> {"ValueFromTerraform"}
      [] OTHER -> {}

\* The type whose method body a call of t.m runs.
MethodOf(t, m) == IF m \in Declares(t) THEN t ELSE Embedded(t)

\* t.Equal(o) for a receiver t: the Equal of Float64Type, declared or promoted.
TypeEqual(t, o) == IF MethodOf(t, "Equal") = "Float64Type" THEN Equal(o) ELSE FALSE

CustomValue(v) == [gotype |-> "CustomValue", embedded |-> v]

\* The documented override: val, err := c.Float64Type.ValueFromTerraform(ctx, in);
\* return CustomValue{val.(Float64Value)}, err.  The assertion panics on a nil val.
CustomValueFromTerraform(in) ==
    LET r == ValueFromTerraform(in)
    IN  IF r.value.gotype # "Float64Value"
        THEN [panic |-> "interface conversion: attr.Value is nil, not basetypes.Float64Value"]
        ELSE [value |-> CustomValue(r.value), err |-> r.err]

-----------------------------------------------------------------------------
(* Inputs.                                                                 *)

\* The bits of a sequence of hexadecimal digits.
HexBits(h) == [i \in 1..(4 * Len(h)) |-> (h[((i - 1) \div 4) + 1] \div 2^(3 - ((i - 1) % 4))) % 2]

\* 1234.5 = 0.100110100101b * 2^11
Mant1234 == <<1, 0, 0, 1, 1, 0, 1, 0, 0, 1, 0, 1>>
Num1234 == Finite(FALSE, Mant1234, 11)

\* 1.79769313486231570814527423731704356798070e+1000 as tftypes parses a
\* decimal: rounded to nearest even at 512 bits of precision.
Mant1e1000 ==
    HexBits(<<13, 10, 14, 10, 12, 15, 3, 13, 3, 7, 13, 9, 11, 12, 1, 1,
              14, 3, 3, 12, 1, 15, 8, 12, 13, 8, 6, 0, 14, 11, 0, 2,
              11, 15, 3, 1, 1, 9, 9, 4, 0, 12, 13, 11, 3, 6, 10, 14,
              11, 10, 10, 5, 3, 0, 8, 13, 8, 4, 3, 0, 9, 8, 4, 13,
              1, 5, 4, 14, 13, 10, 13, 3, 1, 1, 11, 9, 3, 12, 1, 4,
              4, 5, 2, 13, 1, 15, 3, 12, 14, 11, 6, 7, 4, 1, 10, 14,
              0, 4, 6, 14, 4, 11, 11, 0, 6, 8, 14, 1, 15, 2, 1, 10,
              3, 8, 9, 1, 8, 9, 1, 14, 6, 14, 6, 1, 2, 6, 3, 11>>)
Num1e1000 == Finite(FALSE, Mant1e1000, 3323)

Ends(n) == <<1>> \o Zeros(n - 2) \o <<1>>
MaxMantLen == mbits + 1 + MaxExtraBits

Mantissas ==
    {<<1>>, <<1, 1>>, Mant1234, <<1>> \o Zeros(MaxMantLen - 1)}
        \cup {Ones(n) : n \in mbits..MaxMantLen}
        \cup {Ends(n) : n \in mbits..MaxMantLen}

\* Exponents around the float64 limits: the largest exponent, overflow, the
\* smallest normal, the denormals and underflow.
Exponents == {1, 11, emax + 1, emax + 2, emin + 1, emin, emin - mbits + 2,
              emin - mbits + 1, emin - mbits, emin - mbits - 1}

Numbers ==
    {Finite(neg, m, e) : neg \in BOOLEAN, m \in Mantissas, e \in Exponents}
        \cup {Num1e1000}
        \cup {BigZero(neg) : neg \in BOOLEAN}
        \cup {BigInf(neg) : neg \in BOOLEAN}

Frac1234 == SubSeq(TopBits(Mant1234, mbits + 1), 2, mbits + 1)

Float64s ==
    {[sign |-> s, bexp |-> b, frac |-> f] :
        s \in {0, 1},
        b \in {0, 1, bias, bias + 10, 2 * bias, 2 * bias + 1},
        f \in {Zeros(mbits), Ones(mbits), Zeros(mbits - 1) \o <<1>>,
               <<1>> \o Zeros(mbits - 1), Frac1234}}

\* The wire encodings of the known Float64 values that have one.
Encodings ==
    {ToTerraformValue(NewFloat64Value(f)).value :
        f \in {g \in Float64s : ToTerraformValue(NewFloat64Value(g)).encoded}}

WireTypes == {Number, "String", "Bool"}

EmptyValues ==
    {NewValue(t, v) : t \in WireTypes \cup {"nil"}, v \in {Nil, unknownValue}}

OtherValues ==
    {NewValue("String", StringPayload("string")), NewValue("Bool", BoolPayload(TRUE))}

WireValues ==
    EmptyValues \cup OtherValues
        \cup {NewValue(Number, BigFloatPayload(x)) : x \in Numbers}

Paths == {EmptyPath, <<"float64_attribute">>,
          <<"list_nested_block", "[1]", "float64_attribute">>}

Receivers == {"Float64Type", "PlainCustomType", "CustomType"}

TypeDescriptors ==
    Receivers \cup {"Int64Type", "NumberType", "StringType", "BoolType", "ListType",
                    "SetType", "MapType", "ObjectType", "TupleType", "nil"}

\* The inputs of the concurrent specification.
ConcValues ==
    {NewValue("nil", Nil), NewValue(Number, Nil), NewValue(Number, unknownValue),
     NewValue(Number, BigFloatPayload(Num1234)),
     NewValue(Number, BigFloatPayload(Num1e1000)),
     NewValue("String", StringPayload("string"))}
ConcPaths == {<<"float64_attribute">>, <<"list_nested_block", "[1]", "float64_attribute">>}

-----------------------------------------------------------------------------
(* The calls: each is idle, called (arguments bound), in the body of        *)
(* Validate (collector declared), done (ret holds the results) or panicked. *)

Idle == [pc |-> "idle", op |-> "none", t |-> "nil", in |-> NewValue("nil", Nil),
         path |-> EmptyPath, o |-> "nil", diags |-> <<>>, ret |-> [none |-> TRUE]]

CallValidate(c, T, V, P) ==
    /\ calls[c].pc = "idle"
    /\ \E t \in T, in \in V, path \in P :
          calls' = [calls EXCEPT ![c] = [Idle EXCEPT !.pc = "called", !.op = "Validate",
                                              !.t = t, !.in = in, !.path = path]]

CallValueFromTerraform(c, T, V) ==
    /\ calls[c].pc = "idle"
    /\ \E t \in T, in \in V :
          calls' = [calls EXCEPT ![c] = [Idle EXCEPT !.pc = "called",
                                              !.op = "ValueFromTerraform",
                                              !.t = t, !.in = in]]

CallEqual(c, T, O) ==
    /\ calls[c].pc = "idle"
    /\ \E t \in T, o \in O :
          calls' = [calls EXCEPT ![c] = [Idle EXCEPT !.pc = "called", !.op = "Equal",
                                              !.t = t, !.o = o]]

CallTerraformType(c, T) ==
    /\ calls[c].pc = "idle"
    /\ \E t \in T :
          calls' = [calls EXCEPT ![c] = [Idle EXCEPT !.pc = "called",
                                              !.op = "TerraformType", !.t = t]]

Running(c, op, owner) ==
    /\ calls[c].pc = "called"
    /\ calls[c].op = op
    /\ MethodOf(calls[c].t, op) = owner

\* Validate, line 56.
ValidateEnter(c) ==
    /\ Running(c, "Validate", "Float64Type")
    /\ calls' = [calls EXCEPT ![c].pc = "body",
                              ![c].diags =
                                  NewDiagnostics({calls[d].diags : d \in DOMAIN calls \ {c}})]

\* Validate, lines 58-101.
ValidateBody(c) ==
    /\ calls[c].pc = "body"
    /\ LET diags == ValidateFrom(calls[c].diags, calls[c].in, calls[c].path)
       IN  calls' = [calls EXCEPT ![c].pc = "done", ![c].diags = diags,
                                  ![c].ret = [diags |-> diags]]

DoValueFromTerraform(c) ==
    /\ Running(c, "ValueFromTerraform", "Float64Type")
    /\ calls' = [calls EXCEPT ![c].pc = "done",
                              ![c].ret = ValueFromTerraform(calls[c].in)]

\* The override a custom type declares over its embedded Float64Type.
DoCustomValueFromTerraform(c) ==
    /\ Embedded(calls[c].t) = "Float64Type"
    /\ Running(c, "ValueFromTerraform", calls[c].t)
    /\ LET r == CustomValueFromTerraform(calls[c].in)
       IN  calls' = [calls EXCEPT ![c].pc = IF "panic" \in DOMAIN r THEN "panicked" ELSE "done",
                                  ![c].ret = r]

DoEqual(c) ==
    /\ Running(c, "Equal", "Float64Type")
    /\ calls' = [calls EXCEPT ![c].pc = "done", ![c].ret = [ok |-> Equal(calls[c].o)]]

DoTerraformType(c) ==
    /\ Running(c, "TerraformType", "Float64Type")
    /\ calls' = [calls EXCEPT ![c].pc = "done", ![c].ret = [typ |-> TerraformType]]

\* The caller takes the results (or the panic unwinds) and the slot is free again.
Return(c) ==
    /\ calls[c].pc \in {"done", "panicked"}
    /\ calls' = [calls EXCEPT ![c] = Idle]

\* One call at a time.
SeqSlots == {1}

Init == calls = [c \in SeqSlots |-> Idle]

Next ==
    \/ \E c \in SeqSlots : CallValidate(c, Receivers, WireValues, Paths)
    \/ \E c \in SeqSlots : CallValueFromTerraform(c, Receivers, WireValues \cup Encodings)
    \/ \E c \in SeqSlots : CallEqual(c, Receivers, TypeDescriptors)
    \/ \E c \in SeqSlots : CallTerraformType(c, Receivers)
    \/ \E c \in SeqSlots : ValidateEnter(c)
    \/ \E c \in SeqSlots : ValidateBody(c)
    \/ \E c \in SeqSlots : DoValueFromTerraform(c)
    \/ \E c \in SeqSlots : DoCustomValueFromTerraform(c)
    \/ \E c \in SeqSlots : DoEqual(c)
    \/ \E c \in SeqSlots : DoTerraformType(c)
    \/ \E c \in SeqSlots : Return(c)

Spec == Init /\ [][Next]_vars

\* Several calls on the same Float64Type in flight at once.
ConcSlots == 1..MaxConcurrent

InitConc == calls = [c \in ConcSlots |-> Idle]

NextConc ==
    \/ \E c \in ConcSlots : CallValidate(c, {"Float64Type"}, ConcValues, ConcPaths)
    \/ \E c \in ConcSlots : CallValueFromTerraform(c, {"Float64Type"}, ConcValues)
    \/ \E c \in ConcSlots : ValidateEnter(c)
    \/ \E c \in ConcSlots : ValidateBody(c)
    \/ \E c \in ConcSlots : DoValueFromTerraform(c)
    \/ \E c \in ConcSlots : Return(c)

SpecConc == InitConc /\ [][NextConc]_vars
-----------------------------------------------------------------------------
(* Properties.                                                             *)

Slots == DOMAIN calls

\* Call c of method op on receiver t has returned.
Done(c, op, t) == calls[c].pc = "done" /\ calls[c].op = op /\ calls[c].t = t

KnownNumber(in) == in.typ = Number /\ IsKnown(in) /\ ~IsNull(in)

\* x is a float64 exactly: at most 53 significant bits, the leading bit at
\* most 2^1023 and the last set bit at least 2^-1074 (or a zero or an infinity).
Representable(x) ==
    \/ x.form # "finite"
    \/ LET m == StripTrailing(x.mant)
       IN  /\ Len(m) <= mbits + 1
           /\ x.exp - 1 <= emax
           /\ x.exp - Len(m) >= emin - mbits

\* C1: Validate on a known Number returns exactly one diagnostic, of severity
\* Error, when the number is not exactly a float64 (as for
\* 1.79769313486231570814527423731704356798070e+1000), and no diagnostic when
\* it is (as for 1234.5).
C1_ValidateNarrowing ==
    \A c \in Slots :
        Done(c, "Validate", "Float64Type") /\ KnownNumber(calls[c].in) =>
            LET d == calls[c].ret.diags
            IN  IF Representable(calls[c].in.value.f)
                THEN d = <<>>
                ELSE Len(d) = 1 /\ d[1].severity = "Error"

C1_Witness ==
    \E c \in Slots :
        /\ Done(c, "Validate", "Float64Type")
        /\ calls[c].in = NewValue(Number, BigFloatPayload(Num1e1000))
        /\ ~Representable(Num1e1000)
        /\ Len(calls[c].ret.diags) = 1

\* C2: ValueFromTerraform on a known Number d returns a Known value and no
\* error exactly when d is exactly a float64, and then the float equals d;
\* otherwise it returns an error and no value.
C2_DecodeExactOnly ==
    \A c \in Slots :
        Done(c, "ValueFromTerraform", "Float64Type") /\ KnownNumber(calls[c].in) =>
            LET d == calls[c].in.value.f
                r == calls[c].ret
            IN  IF Representable(d)
                THEN /\ r.err = Nil
                     /\ r.value.gotype = "Float64Value"
                     /\ r.value.state = "known"
                     /\ ~IsNaN(r.value.value)
                     /\ NumEq(NewFloat(r.value.value), d)
                ELSE r.err # Nil /\ r.value = Nil

C2_Witness ==
    \E c \in Slots :
        /\ Done(c, "ValueFromTerraform", "Float64Type")
        /\ calls[c].in = NewValue(Number, BigFloatPayload(Finite(TRUE, Ones(mbits + 1), emax + 1)))
        /\ calls[c].ret.err = Nil
        /\ calls[c].ret.value.state = "known"

\* C3: ValueFromTerraform returns Unknown and no error for an unknown wire
\* value, Null and no error for a null one (the zero wire value included), and
\* a Known value only for a known, non-null one.
C3_ThreeStates ==
    \A c \in Slots :
        Done(c, "ValueFromTerraform", "Float64Type") =>
            LET in == calls[c].in
                r == calls[c].ret
            IN  /\ ~IsKnown(in) => r = [value |-> NewFloat64Unknown, err |-> Nil]
                /\ IsNull(in) => r = [value |-> NewFloat64Null, err |-> Nil]
                /\ NewFloat64Unknown # NewFloat64Null
                /\ (r.value.gotype = "Float64Value" /\ r.value.state = "known")
                       => IsKnown(in) /\ ~IsNull(in)
                /\ (r.value.gotype = "Float64Value" /\ r.value.state = "unknown")
                       => ~IsKnown(in)
                /\ (r.value.gotype = "Float64Value" /\ r.value.state = "null")
                       => IsNull(in)

C3_Witness ==
    \E c \in Slots :
        /\ Done(c, "ValueFromTerraform", "Float64Type")
        /\ calls[c].in = NewValue("nil", Nil)
        /\ calls[c].ret.value = NewFloat64Null

HasOtherType(in) == in.typ \notin {Number, "nil"}

\* C4 as stated: decoding a wire value of a type other than Number returns an
\* error and no value, whether the value is known, null or unknown.
C4_Original ==
    \A c \in Slots :
        Done(c, "ValueFromTerraform", "Float64Type") /\ HasOtherType(calls[c].in) =>
            calls[c].ret.err # Nil /\ calls[c].ret.value = Nil

\* C4 (amended): decoding a known, non-null wire value of a type other than
\* Number returns an error and no value; a null or unknown wire value of such
\* a type decodes to Null or Unknown with no error.
C4_Amended ==
    \A c \in Slots :
        Done(c, "ValueFromTerraform", "Float64Type") /\ HasOtherType(calls[c].in) =>
            LET in == calls[c].in
                r == calls[c].ret
            IN  /\ (IsKnown(in) /\ ~IsNull(in)) => r.err # Nil /\ r.value = Nil
                /\ ~IsKnown(in) => r = [value |-> NewFloat64Unknown, err |-> Nil]
                /\ IsNull(in) => r = [value |-> NewFloat64Null, err |-> Nil]

C4_Witness ==
    \E c \in Slots :
        /\ Done(c, "ValueFromTerraform", "Float64Type")
        /\ calls[c].in = NewValue("String", StringPayload("string"))
        /\ calls[c].ret.err # Nil

Narrowing(in) == KnownNumber(in) /\ ~Representable(in.value.f)

\* C5 as stated: decoding a known Number that is not exactly a float64 does
\* not abort: no error is returned and a value is produced.
C5_Original ==
    \A c \in Slots :
        Done(c, "ValueFromTerraform", "Float64Type") /\ Narrowing(calls[c].in) =>
            calls[c].ret.err = Nil /\ calls[c].ret.value # Nil

\* C5 (amended): for a known Number that is not exactly a float64, Validate
\* reports the failure as one collected Error diagnostic at the given path,
\* and ValueFromTerraform aborts: it returns an error and no value.
C5_Amended ==
    \A c \in Slots :
        /\ Done(c, "Validate", "Float64Type") /\ Narrowing(calls[c].in) =>
               calls[c].ret.diags =
                   <<ErrorDiagnostic(calls[c].path, ValidationSummary,
                                     Sprintf(NarrowingDetail, calls[c].in.value.f))>>
        /\ Done(c, "ValueFromTerraform", "Float64Type") /\ Narrowing(calls[c].in) =>
               /\ calls[c].ret.value = Nil
               /\ calls[c].ret.err = Error(Sprintf(NarrowingDetail, calls[c].in.value.f))

C5_Witness ==
    \E c \in Slots :
        /\ Done(c, "ValueFromTerraform", "Float64Type")
        /\ calls[c].in = NewValue(Number, BigFloatPayload(Finite(FALSE, Ends(mbits + 2), 1)))
        /\ Narrowing(calls[c].in)
        /\ calls[c].ret.value = Nil

\* C6: for every known Float64 value v that has a wire encoding,
\* ValueFromTerraform of that encoding returns no error and a value equal to v.
C6_RoundTrip ==
    \A c \in Slots :
        Done(c, "ValueFromTerraform", "Float64Type") =>
            \A f \in Float64s :
                LET v == NewFloat64Value(f)
                    w == ToTerraformValue(v)
                IN  w.encoded /\ calls[c].in = w.value =>
                        /\ calls[c].ret.err = Nil
                        /\ ValueEqual(calls[c].ret.value, v)

C6_Witness ==
    \E c \in Slots :
        /\ Done(c, "ValueFromTerraform", "Float64Type")
        /\ LET v == NewFloat64Value(F64(TRUE, 0, Ones(mbits)))
           IN  /\ calls[c].in = ToTerraformValue(v).value
               /\ ValueEqual(calls[c].ret.value, v)

C8_EqualByKind ==
    \A c \in Slots :
        Done(c, "Equal", "Float64Type") =>
            /\ calls[c].o = "Float64Type" => calls[c].ret.ok
            /\ calls[c].o \in TypeDescriptors \ {"Float64Type"} => ~calls[c].ret.ok

C8_Witness ==
    \E c \in Slots :
        /\ Done(c, "Equal", "Float64Type")
        /\ calls[c].o = "NumberType"
        /\ ~calls[c].ret.ok

\* C9: every diagnostic Validate returns has severity Error and carries the
\* path the call was given.
C9_ErrorAtPath ==
    \A c \in Slots :
        Done(c, "Validate", "Float64Type") =>
            \A i \in 1..Len(calls[c].ret.diags) :
                /\ calls[c].ret.diags[i].severity = "Error"
                /\ calls[c].ret.diags[i].path = calls[c].path

C9_Witness ==
    \E c \in Slots :
        /\ Done(c, "Validate", "Float64Type")
        /\ calls[c].path = <<"list_nested_block", "[1]", "float64_attribute">>
        /\ calls[c].in = NewValue("String", Nil)
        /\ Len(calls[c].ret.diags) = 1

\* C10: with several calls in flight, each Validate call starts from an empty
\* collector and each call returns what it returns when run alone.
C10_CallsIndependent ==
    \A c \in Slots :
        /\ (calls[c].pc = "body") => calls[c].diags = <<>>
        /\ (calls[c].pc = "done" /\ calls[c].op = "Validate") =>
               calls[c].ret = [diags |-> Validate(calls[c].in, calls[c].path)]
        /\ (calls[c].pc = "done" /\ calls[c].op = "ValueFromTerraform") =>
               calls[c].ret = ValueFromTerraform(calls[c].in)

C10_Witness ==
    \E c, d \in Slots :
        /\ c # d
        /\ calls[c].pc = "done" /\ calls[c].op = "Validate"
        /\ calls[c].ret.diags # <<>>
        /\ calls[d].pc = "done" /\ calls[d].op = "Validate"
        /\ calls[d].ret.diags = <<>>
        /\ calls[d].in = NewValue(Number, BigFloatPayload(Num1234))

\* The exact decimal renderings of a finite x, with all of its digits: the
\* scientific and the positional form.
ExactTexts(x) ==
    LET d == Decimal(x)
        n == Len(d.mant)
        sign == IF x.neg THEN <<"-">> ELSE <<>>
    IN  {sign \o FmtE(n - 1, d), sign \o FmtF(IF n > d.exp THEN n - d.exp ELSE 0, d)}

\* The narrowing message of a returned call: the detail of Validate's
\* diagnostic, the message of ValueFromTerraform's error.
NarrowingMessage(c) ==
    IF calls[c].op = "Validate" THEN calls[c].ret.diags[1].detail
    ELSE calls[c].ret.err.msg

\* C11 as stated: the message of a narrowing failure, from Validate and from
\* ValueFromTerraform, reads "Value ", the exact decimal input with all of
\* its digits, and " cannot be represented as a 64-bit floating point.".
C11_Original ==
    \A c \in Slots :
        /\ Done(c, "Validate", "Float64Type") \/ Done(c, "ValueFromTerraform", "Float64Type")
        /\ Narrowing(calls[c].in)
        => \E text \in ExactTexts(calls[c].in.value.f) :
               MessageText(NarrowingMessage(c)) = <<NarrowingPrefix, text, NarrowingSuffix>>

\* C12: Validate on a wire value of a type other than Number returns exactly
\* one Error diagnostic, the wire-type diagnostic and not the narrowing one,
\* whether the value is known, null or unknown.
C12_ShapeFirst ==
    \A c \in Slots :
        Done(c, "Validate", "Float64Type") /\ HasOtherType(calls[c].in) =>
            LET d == calls[c].ret.diags
            IN  /\ Len(d) = 1
                /\ d[1].severity = "Error"
                /\ d[1].detail = Sprintf(TypeDetail, calls[c].in)
                /\ d[1].detail.format # NarrowingDetail

C12_Witness ==
    \E c \in Slots :
        /\ Done(c, "Validate", "Float64Type")
        /\ calls[c].in = NewValue("String", unknownValue)
        /\ ~IsKnown(calls[c].in)
        /\ Len(calls[c].ret.diags) = 1

\* in carries no number to narrow: no wire type, a null Number or an unknown
\* Number.
NoNumber(in) == in.typ = "nil" \/ (in.typ = Number /\ (~IsKnown(in) \/ IsNull(in)))

\* C13: Validate returns no diagnostic for a value with no wire type, a null
\* Number and an unknown Number; a diagnostic is returned only for a value of
\* a non-Number type or for a known, non-null Number.
C13_NothingToNarrow ==
    \A c \in Slots :
        Done(c, "Validate", "Float64Type") =>
            /\ NoNumber(calls[c].in) => calls[c].ret.diags = <<>>
            /\ calls[c].ret.diags # <<>> =>
                   HasOtherType(calls[c].in) \/ KnownNumber(calls[c].in)

C13_Witness ==
    \E c \in Slots :
        /\ Done(c, "Validate", "Float64Type")
        /\ calls[c].in = NewValue("nil", Nil)
        /\ NoNumber(calls[c].in)
        /\ calls[c].ret.diags = <<>>

\* Validate rejects in and ValueFromTerraform accepts it.
RejectedButDecoded(diags, err) == diags # <<>> /\ err = Nil

\* A null or unknown value of a wire type other than Number.
EmptyOfOtherType(in) == HasOtherType(in) /\ (~IsKnown(in) \/ IsNull(in))

\* C14 as stated: on every wire value Validate returns at least one Error
\* diagnostic exactly when ValueFromTerraform returns an error.
C14_Original ==
    \A c \in Slots :
        /\ Done(c, "Validate", "Float64Type") =>
               (calls[c].ret.diags # <<>>) = (ValueFromTerraform(calls[c].in).err # Nil)
        /\ Done(c, "ValueFromTerraform", "Float64Type") =>
               (Validate(calls[c].in, EmptyPath) # <<>>) = (calls[c].ret.err # Nil)

\* C14 amended: a value that passes Validate decodes without error, a value
\* ValueFromTerraform refuses fails Validate with an Error diagnostic, and
\* the two differ exactly on the null and unknown values of a wire type
\* other than Number, which Validate rejects and ValueFromTerraform decodes.
C14_Amended ==
    \A c \in Slots :
        /\ Done(c, "Validate", "Float64Type") =>
               LET d == calls[c].ret.diags
                   r == ValueFromTerraform(calls[c].in)
               IN  /\ d = <<>> => r.err = Nil /\ r.value # Nil
                   /\ r.err # Nil => Len(d) >= 1 /\ d[1].severity = "Error"
                   /\ RejectedButDecoded(d, r.err) = EmptyOfOtherType(calls[c].in)
        /\ Done(c, "ValueFromTerraform", "Float64Type") =>
               LET d == Validate(calls[c].in, EmptyPath)
                   r == calls[c].ret
               IN  /\ d = <<>> => r.err = Nil /\ r.value # Nil
                   /\ r.err # Nil => Len(d) >= 1 /\ d[1].severity = "Error"
                   /\ RejectedButDecoded(d, r.err) = EmptyOfOtherType(calls[c].in)

C14_Witness ==
    \E c \in Slots :
        /\ Done(c, "ValueFromTerraform", "Float64Type")
        /\ calls[c].in = NewValue("String", Nil)
        /\ calls[c].ret = [value |-> NewFloat64Null, err |-> Nil]
        /\ Len(Validate(calls[c].in, EmptyPath)) = 1

\* C15 as stated: type equality is symmetric between Float64Type and the
\* custom types that embed it: a returned t.Equal(o) is what o.Equal(t)
\* returns.
C15_Original ==
    \A c \in Slots :
        /\ calls[c].pc = "done" /\ calls[c].op = "Equal"
        /\ calls[c].t \in Receivers /\ calls[c].o \in Receivers
        => calls[c].ret.ok = TypeEqual(calls[c].o, calls[c].t)

\* C16 as stated: the documented override passes every outcome of the base
\* ValueFromTerraform on: the value wrapped when there is no error, the same
\* error when the base returns an error and no value, and it never panics.
C16_Original ==
    \A c \in Slots :
        calls[c].t = "CustomType" /\ calls[c].op = "ValueFromTerraform" =>
            /\ calls[c].pc # "panicked"
            /\ calls[c].pc = "done" =>
                   LET r == ValueFromTerraform(calls[c].in)
                   IN  IF r.err = Nil
                       THEN calls[c].ret = [value |-> CustomValue(r.value), err |-> Nil]
                       ELSE calls[c].ret.err = r.err
====
